---- MODULE Spec2Model ----
(***************************************************************************)
(* datamix-tools: datamix.py and datamix-to-file.py.                       *)
(*                                                                         *)
(* A run of either script is a sequential pipeline: load the mixture and   *)
(* paths documents, validate_paths, validate_mixture, then flatten and     *)
(* quantize the mixture (largest remainder method) and emit the rows.      *)
(*                                                                         *)
(* JSON values are modelled as tagged records; a dict is the sequence of   *)
(* its (key, value) items in insertion order.  A Python float is modelled  *)
(* as a signed decimal fixed-point number with 12 fractional digits, held  *)
(* in two limbs of 6 digits: [hi, lo] stands for (hi + lo/10^6) * 10^-6    *)
(* with 0 <= lo < 10^6, so hi is the floor of the value in millionths.     *)
(* Addition is exact; a product is rounded to the nearest 10^-12 (ties to  *)
(* even), as a float product is rounded to the nearest double.             *)
(***************************************************************************)
EXTENDS Integers, Sequences, FiniteSets, TLC

\* JSON keys (datamix.py 12-16)
PROPORTION == "proportion"
DATA == "data"
MIXTURE == "mixture"

\* precision = 6 ; multiplier = 10**precision
precision == 6
multiplier == 10^precision
\* round(sum(proportions), 10)
ROUND_DIGITS == 10

(***************************************************************************)
(* Decimal numbers                                                         *)
(***************************************************************************)
Limb == 10^6
FracDigits == 2 * 6

Dec(h, l) == [hi |-> h, lo |-> l]
DecOfInt(n) == Dec(n * Limb, 0)
DecZero == Dec(0, 0)
DecOne == DecOfInt(1)

DecNorm(h, l) == Dec(h + (l \div Limb), l % Limb)
DecAdd(a, b) == DecNorm(a.hi + b.hi, a.lo + b.lo)
DecNeg(a) == IF a.lo = 0 THEN Dec(-a.hi, 0) ELSE Dec(-a.hi - 1, Limb - a.lo)
DecLt(a, b) == a.hi < b.hi \/ (a.hi = b.hi /\ a.lo < b.lo)
DecLe(a, b) == a = b \/ DecLt(a, b)
DecIsNeg(a) == a.hi < 0
DecAbs(a) == IF DecIsNeg(a) THEN DecNeg(a) ELSE a

\* a * b = q * Limb + r for 0 <= a, b < 2^31 / 1000, by schoolbook
\* multiplication in base 1000 (no intermediate exceeds 32 bits)
MulDiv(a, b) ==
    LET a1 == a \div 1000
        a0 == a % 1000
        b1 == b \div 1000
        b0 == b % 1000
        cross == a1 * b0 + a0 * b1
        low == (cross % 1000) * 1000 + a0 * b0
    IN  [q |-> a1 * b1 + (cross \div 1000) + (low \div Limb), r |-> low % Limb]

\* the product of two non-negative decimals, rounded to 12 fractional digits
DecMulAbs(a, b) ==
    LET hh == MulDiv(a.hi, b.hi)
        hl == MulDiv(a.hi, b.lo)
        lh == MulDiv(a.lo, b.hi)
        ll == MulDiv(a.lo, b.lo)
        s == hl.r + lh.r + ll.q
        units == hh.r + hl.q + lh.q + (s \div Limb)
        f == s % Limb
        half == Limb \div 2
        up == \/ f > half
              \/ (f = half /\ ll.r > 0)
              \/ (f = half /\ ll.r = 0 /\ units % 2 = 1)
    IN  DecNorm(hh.q, units + (IF up THEN 1 ELSE 0))

DecMul(a, b) ==
    LET m == DecMulAbs(DecAbs(a), DecAbs(b))
    IN  IF DecIsNeg(a) # DecIsNeg(b) THEN DecNeg(m) ELSE m

\* Python round(x, ndigits): nearest multiple of 10^-ndigits, ties to even
DecRound(x, ndigits) ==
    LET step == 10^(FracDigits - ndigits)
        r == x.lo % step
        down == x.lo - r
        odd == (down \div step) % 2 = 1
        up == 2 * r > step \/ (2 * r = step /\ odd)
    IN  DecNorm(x.hi, IF up THEN down + step ELSE down)

(***************************************************************************)
(* Python / JSON values                                                    *)
(***************************************************************************)
None == [type |-> "NoneType"]
PyStr(s) == [type |-> "str", s |-> s]
PyFloat(d) == [type |-> "float", val |-> d]
PyInt(n) == [type |-> "int", val |-> DecOfInt(n)]
PyBool(b) == [type |-> "bool", val |-> DecOfInt(IF b THEN 1 ELSE 0)]
PyList == [type |-> "list"]
PyDict(items) == [type |-> "dict", items |-> items]
PySet(S) == [type |-> "set", elems |-> S]

Keys(d) == {d.items[i][1] : i \in 1..Len(d.items)}
HasKey(d, k) == k \in Keys(d)
Get(d, k) == d.items[CHOOSE i \in 1..Len(d.items) : d.items[i][1] = k][2]

\* isinstance(v, float) / isinstance(v, (float, int)) / isinstance(v, str);
\* bool is a subclass of int
IsFloat(v) == v.type = "float"
IsFloatOrInt(v) == v.type \in {"float", "int", "bool"}
IsStr(v) == v.type = "str"
IsDict(v) == v.type = "dict"
Hashable(v) == v.type \notin {"dict", "list", "set"}

\* sum(proportions): left to right from 0
RECURSIVE PySumFrom(_, _, _)
PySumFrom(seq, i, acc) ==
    IF i > Len(seq) THEN acc ELSE PySumFrom(seq, i + 1, DecAdd(acc, seq[i].val))
PySum(seq) == PySumFrom(seq, 1, DecZero)

(***************************************************************************)
(* validate_paths                                                          *)
(***************************************************************************)
Ok == [kind |-> "ok", at |-> None]
Error(kind, at) == [kind |-> kind, at |-> at]

RECURSIVE validate_paths_loop(_, _, _)
validate_paths_loop(paths, i, seen) ==
    IF i > Len(paths.items) THEN Ok
    ELSE LET k == paths.items[i][1]
             v == paths.items[i][2]
         IN  IF ~IsStr(v) THEN Error("expected string value", PyStr(k))
             ELSE IF v \in seen THEN Error("duplicate value", v)
             ELSE validate_paths_loop(paths, i + 1, seen \cup {v})

validate_paths(paths) == validate_paths_loop(paths, 1, {})

(***************************************************************************)
(* validate_mixture, datamix.py                                            *)
(* The result carries the exception (err), the name and ID sets as the     *)
(* call left them, and what was printed.                                   *)
(***************************************************************************)
Raise(kind, at, st) ==
    [err |-> Error(kind, at), names |-> st.names, ids |-> st.ids,
     proportions |-> st.proportions, printed |-> st.printed]
Return(st) ==
    [err |-> Ok, names |-> st.names, ids |-> st.ids,
     proportions |-> st.proportions, printed |-> st.printed]
Raised(r) == r.err.kind # "ok"

\* if label is None: label = 'top level mixture' ; if names is None: ...
DefaultLabel(label) == IF label = None THEN PyStr("top level mixture") ELSE label
DefaultSet(s) == IF s = None THEN {} ELSE s.elems

\* (mutant) the sum compared with 1 exactly, not rounded
Balanced_Exact(proportions) == PySum(proportions) = DecOne

\* the balance test itself: round(sum(proportions), 10) != 1 raises
Balanced(proportions) == DecRound(PySum(proportions), ROUND_DIGITS) = DecOne

\* 0 < v[PROPORTION] <= 1.0
InRange(p) == DecLt(DecZero, p.val) /\ DecLe(p.val, DecOne)

\* (mutant) the recursive call left to make its own name set
PassNames_Fresh(names) == None

\* the name set and ID set handed to the recursive call:
\* validate_mixture(v[MIXTURE], paths, k, names, ids)
PassNames(names) == PySet(names)
PassIds(ids) == PySet(ids)

\* the balance check that ends a level (datamix.py prints the sum first)
BalanceCheck(r, label) ==
    IF ~Balanced(r.proportions)
    THEN Raise("values do not add to 1", label,
               [r EXCEPT !.printed = Append(@, PySum(r.proportions))])
    ELSE Return(r)

RECURSIVE validate_mixture(_, _, _, _, _)
RECURSIVE validate_mixture_loop(_, _, _, _)

validate_mixture_loop(mixture, i, paths, st) ==
    IF i > Len(mixture.items) THEN Return(st)
    ELSE
    LET k == mixture.items[i][1]
        v == mixture.items[i][2]
        st1 == [st EXCEPT !.names = @ \cup {k}]
    IN
    IF k \in st.names THEN Raise("duplicate name", PyStr(k), st)
    ELSE IF ~IsDict(v) THEN Raise("expected dict", PyStr(k), st1)
    ELSE IF ~HasKey(v, PROPORTION) THEN Raise("missing proportion", PyStr(k), st1)
    ELSE IF ~IsFloat(Get(v, PROPORTION))
         THEN Raise("expected float proportion", PyStr(k), st1)
    ELSE IF ~InRange(Get(v, PROPORTION))
         THEN Raise("expected 0 < proportion <= 1", PyStr(k), st1)
    ELSE
    LET st2 == [st1 EXCEPT !.proportions = Append(@, Get(v, PROPORTION))]
    IN
    IF HasKey(v, MIXTURE) THEN
        IF ~IsDict(Get(v, MIXTURE)) THEN Raise("expected dict mixture", PyStr(k), st2)
        ELSE IF HasKey(v, DATA) THEN Raise("both data and mixture", PyStr(k), st2)
        ELSE LET r == validate_mixture(Get(v, MIXTURE), paths, PyStr(k),
                                       PassNames(st2.names), PassIds(st2.ids))
             IN  IF Raised(r) THEN r
                 ELSE validate_mixture_loop(mixture, i + 1, paths,
                          [st2 EXCEPT !.names = r.names, !.ids = r.ids,
                                      !.printed = r.printed])
    ELSE IF HasKey(v, DATA) THEN
        IF ~IsStr(Get(v, DATA)) THEN Raise("expected string data", PyStr(k), st2)
        ELSE IF ~HasKey(paths, Get(v, DATA).s)
             THEN Raise("unknown data ID", Get(v, DATA), st2)
        ELSE IF Get(v, DATA) \in st2.ids
             THEN Raise("duplicate reference", Get(v, DATA), st2)
        ELSE validate_mixture_loop(mixture, i + 1, paths,
                 [st2 EXCEPT !.ids = @ \cup {Get(v, DATA)}])
    ELSE Raise("neither data nor mixture", PyStr(k), st2)

validate_mixture(mixture, paths, label, names, ids) ==
    LET r == validate_mixture_loop(mixture, 1, paths,
                 [names |-> DefaultSet(names), ids |-> DefaultSet(ids),
                  proportions |-> <<>>, printed |-> <<>>])
    IN  IF Raised(r) THEN r ELSE BalanceCheck(r, DefaultLabel(label))

(***************************************************************************)
(* validate_mixture, datamix-to-file.py: no range check, no both-keys      *)
(* check, no type check of v[MIXTURE] or v[DATA], no duplicate-reference   *)
(* check                                                                   *)
(***************************************************************************)
BalanceCheck_tf(r, label) ==
    IF ~Balanced(r.proportions)
    THEN Raise("values do not add to 1", label, r)
    ELSE Return(r)

RECURSIVE validate_mixture_tf(_, _, _, _, _)
RECURSIVE validate_mixture_loop_tf(_, _, _, _)

validate_mixture_loop_tf(mixture, i, paths, st) ==
    IF i > Len(mixture.items) THEN Return(st)
    ELSE
    LET k == mixture.items[i][1]
        v == mixture.items[i][2]
        st1 == [st EXCEPT !.names = @ \cup {k}]
    IN
    IF k \in st.names THEN Raise("duplicate name", PyStr(k), st)
    ELSE IF ~IsDict(v) THEN Raise("expected dict", PyStr(k), st1)
    ELSE IF ~HasKey(v, PROPORTION) THEN Raise("missing proportion", PyStr(k), st1)
    ELSE IF ~IsFloatOrInt(Get(v, PROPORTION))
         THEN Raise("expected numeric proportion", PyStr(k), st1)
    ELSE
    LET st2 == [st1 EXCEPT !.proportions = Append(@, Get(v, PROPORTION))]
    IN
    IF HasKey(v, MIXTURE) THEN
        LET r == validate_mixture_tf(Get(v, MIXTURE), paths, PyStr(k),
                                     PassNames(st2.names), PassIds(st2.ids))
        IN  IF Raised(r) THEN r
            ELSE validate_mixture_loop_tf(mixture, i + 1, paths,
                     [st2 EXCEPT !.names = r.names, !.ids = r.ids])
    ELSE IF HasKey(v, DATA) THEN
        \* v[DATA] not in paths: hashing an unhashable value raises TypeError;
        \* the keys of paths are strings
        IF ~Hashable(Get(v, DATA)) THEN Raise("TypeError", PyStr(k), st2)
        ELSE IF ~(IsStr(Get(v, DATA)) /\ HasKey(paths, Get(v, DATA).s))
             THEN Raise("unknown data ID", Get(v, DATA), st2)
        ELSE validate_mixture_loop_tf(mixture, i + 1, paths,
                 [st2 EXCEPT !.ids = @ \cup {Get(v, DATA)}])
    ELSE Raise("neither data nor mixture", PyStr(k), st2)

validate_mixture_tf(mixture, paths, label, names, ids) ==
    \* mixture.items() on a value that is no dict raises AttributeError
    IF ~IsDict(mixture)
    THEN Raise("AttributeError", DefaultLabel(label),
               [names |-> DefaultSet(names), ids |-> DefaultSet(ids),
                proportions |-> <<>>, printed |-> <<>>])
    ELSE
    LET r == validate_mixture_loop_tf(mixture, 1, paths,
                 [names |-> DefaultSet(names), ids |-> DefaultSet(ids),
                  proportions |-> <<>>, printed |-> <<>>])
    IN  IF Raised(r) THEN r ELSE BalanceCheck_tf(r, DefaultLabel(label))

(***************************************************************************)
(* flatten_mixture (the same in both files, but for the assert).  The      *)
(* flattened dict is the sequence of its items in insertion order;         *)
(* flattened[k] = ... on a key already there replaces the value in place.  *)
(***************************************************************************)
DictSet(items, k, val) ==
    IF \E i \in 1..Len(items) : items[i][1] = k
    THEN [i \in 1..Len(items) |-> IF items[i][1] = k THEN <<k, val>> ELSE items[i]]
    ELSE Append(items, <<k, val>>)

\* (mutant) the parent's weight dropped
Weight_NoParent(parent_weight, v) == Get(v, PROPORTION).val

\* weight = parent_weight * v[PROPORTION]
Weight(parent_weight, v) == DecMul(parent_weight, Get(v, PROPORTION).val)

\* flattened[k] = {PROPORTION: weight, DATA: v[DATA]}
Leaf(weight, v) == [proportion |-> weight, data |-> Get(v, DATA)]

RECURSIVE flatten_mixture(_, _, _)
RECURSIVE flatten_mixture_loop(_, _, _, _)

flatten_mixture_loop(mixture, i, parent_weight, flattened) ==
    IF i > Len(mixture.items) THEN [err |-> Ok, flattened |-> flattened]
    ELSE
    LET k == mixture.items[i][1]
        v == mixture.items[i][2]
        weight == Weight(parent_weight, v)
    IN
    IF HasKey(v, MIXTURE) THEN
        LET r == flatten_mixture(Get(v, MIXTURE), weight, flattened)
        IN  IF Raised(r) THEN r
            ELSE flatten_mixture_loop(mixture, i + 1, parent_weight, r.flattened)
    ELSE IF ~HasKey(v, DATA)
         THEN [err |-> Error("missing data", PyStr(k)), flattened |-> flattened]
    ELSE flatten_mixture_loop(mixture, i + 1, parent_weight,
                              DictSet(flattened, k, Leaf(weight, v)))

flatten_mixture(mixture, parent_weight, flattened) ==
    flatten_mixture_loop(mixture, 1, parent_weight, flattened)

\* datamix-to-file.py: the same function, v[DATA] in place of the assert
flatten_mixture_tf(mixture, parent_weight, flattened) ==
    flatten_mixture(mixture, parent_weight, flattened)

(***************************************************************************)
(* The quantizer: largest remainder method                                 *)
(***************************************************************************)
Abs(n) == IF n < 0 THEN -n ELSE n

\* exact_val = v[PROPORTION] * multiplier, as sign, whole part and
\* fraction (in units of 1/Limb)
ExactVal(p) ==
    LET a == DecAbs(p)
        h == MulDiv(a.hi, multiplier)
        l == MulDiv(a.lo, multiplier)
        f == h.r + l.q
    IN  [neg |-> DecIsNeg(p), whole |-> h.q + (f \div Limb), frac |-> f % Limb]

\* (mutant) round() in place of int(): to the nearest integer
TruncInt_Round(e) ==
    LET w == IF 2 * e.frac >= Limb THEN e.whole + 1 ELSE e.whole
    IN  IF e.neg THEN -w ELSE w

\* floor_val = int(exact_val): int() truncates towards zero
TruncInt(e) == IF e.neg THEN -e.whole ELSE e.whole

\* remainder = exact_val - floor_val, in units of 1/Limb
Remainder(e, floor_val) ==
    ((IF e.neg THEN -e.whole ELSE e.whole) - floor_val) * Limb
        + (IF e.neg THEN -e.frac ELSE e.frac)

\* one entry of processed_items / scaled_values
ScaledItem(k, v, paths) ==
    LET exact_val == ExactVal(v.proportion)
        floor_val == TruncInt(exact_val)
    IN  [key |-> k, path |-> Get(paths, v.data.s),
         floor |-> floor_val, remainder |-> Remainder(exact_val, floor_val)]

\* paths[v[DATA]] raises KeyError (TypeError for an unhashable key)
PathKnown(v, paths) == IsStr(v.data) /\ HasKey(paths, v.data.s)

ScaledItems(items, paths) ==
    [i \in 1..Len(items) |-> ScaledItem(items[i][1], items[i][2], paths)]

RECURSIVE SumFloor(_, _)
SumFloor(items, i) ==
    IF i > Len(items) THEN 0 ELSE items[i].floor + SumFloor(items, i + 1)

\* diff = multiplier - total_floor_sum
Diff(items) == multiplier - SumFloor(items, 1)

\* (mutant) an ascending sort reversed: equal remainders change places
InsertDesc_Unstable(sorted, x) ==
    LET n == Cardinality({i \in 1..Len(sorted) : sorted[i].remainder > x.remainder})
    IN  SubSeq(sorted, 1, n) \o <<x>> \o SubSeq(sorted, n + 1, Len(sorted))

\* where list.sort(key=remainder, reverse=True) puts x in an already sorted
\* list: after every entry whose remainder is >= its own (the sort is stable)
InsertDesc(sorted, x) ==
    LET n == Cardinality({i \in 1..Len(sorted) : sorted[i].remainder >= x.remainder})
    IN  SubSeq(sorted, 1, n) \o <<x>> \o SubSeq(sorted, n + 1, Len(sorted))

RECURSIVE SortFrom(_, _, _)
SortFrom(items, i, sorted) ==
    IF i > Len(items) THEN sorted
    ELSE SortFrom(items, i + 1, InsertDesc(sorted, items[i]))

SortByRemainderDesc(items) == SortFrom(items, 1, <<>>)

\* for i in range(int(diff)): items[i]['floor'] += 1
\* items[i] past the end raises IndexError; range of a negative is empty
IncrementRaises(items, diff) == diff > Len(items)
Increment(items, diff) ==
    [i \in 1..Len(items) |->
        IF i <= diff THEN [items[i] EXCEPT !.floor = @ + 1] ELSE items[i]]

\* f"{item['floor'] / multiplier:.{precision}f}": sign, integer part and the
\* precision digits after the point
FormatFixed(n) ==
    [sign |-> IF n < 0 THEN "-" ELSE "",
     int |-> Abs(n) \div multiplier,
     frac |-> Abs(n) % multiplier]

\* f"{final_proportion:.{precision}f} {item['path']}"
FormatRow(item) == [proportion |-> FormatFixed(item.floor), path |-> item.path]

Quantize(flat, paths) ==
    IF Raised(flat)
    THEN [err |-> flat.err, flattened |-> flat.flattened, diff |-> 0,
          items |-> <<>>, rows |-> <<>>]
    ELSE IF \E i \in 1..Len(flat.flattened) : ~PathKnown(flat.flattened[i][2], paths)
    THEN [err |-> Error("KeyError", None), flattened |-> flat.flattened, diff |-> 0,
          items |-> <<>>, rows |-> <<>>]
    ELSE
    LET scaled == ScaledItems(flat.flattened, paths)
        diff == Diff(scaled)
        sorted == SortByRemainderDesc(scaled)
    IN  IF IncrementRaises(sorted, diff)
        THEN [err |-> Error("IndexError", None), flattened |-> flat.flattened,
              diff |-> diff, items |-> sorted, rows |-> <<>>]
        ELSE LET final == Increment(sorted, diff)
             IN  [err |-> Ok, flattened |-> flat.flattened, diff |-> diff,
                  items |-> final,
                  rows |-> [i \in 1..Len(final) |-> FormatRow(final[i])]]

\* datamix.py: the rows output_megatron_data_path prints, one per line
output_megatron_data_path(mixture, paths) ==
    Quantize(flatten_mixture(mixture, DecOne, <<>>), paths)

\* datamix.py: the output_parts save_megatron_data_path joins and writes
save_megatron_data_path(mixture, paths) ==
    Quantize(flatten_mixture(mixture, DecOne, <<>>), paths)

\* datamix-to-file.py
save_megatron_data_path_tf(mixture, paths) ==
    Quantize(flatten_mixture_tf(mixture, DecOne, <<>>), paths)

(***************************************************************************)
(* main: one run of a script                                               *)
(***************************************************************************)
VARIABLES
    script,      \* "datamix.py" or "datamix-to-file.py"
    args,        \* args.mixture, args.paths: the input files; args.output
    pc,          \* the phase main is about to run
    mixture,     \* main's local: the loaded mixture document
    paths,       \* main's local: the loaded paths document
    validation,  \* what the validate_mixture call left: exception, names, ids
    quantized,   \* what save_/output_megatron_data_path computed
    status,      \* the process exit status (main returns 1, or None: 0)
    log,         \* logging.error lines
    stdout,      \* printed lines
    out_file,    \* the output file on disk
    ran          \* the phases run so far, in order

vars == <<script, args, pc, mixture, paths, validation, quantized, status, log,
          stdout, out_file, ran>>

\* an input file: loads |-> FALSE when open, json.load or the template
\* substitution raises; value is the document after load_json_with_variables
BadFile == [loads |-> FALSE]
GoodFile(v) == [loads |-> TRUE, value |-> v]

Absent == [exists |-> FALSE]
FileWith(content) == [exists |-> TRUE, content |-> content]

\* (mutant) the error is logged and main returns None
Fail_NoStatus(phase, err) ==
    /\ log' = Append(log, [phase |-> phase, err |-> err])
    /\ status' = status
    /\ pc' = "done"

\* logging.error(...) ; return 1
Fail(phase, err) ==
    /\ log' = Append(log, [phase |-> phase, err |-> err])
    /\ status' = 1
    /\ pc' = "done"

Load(phase, file, next) ==
    /\ pc = phase
    /\ ran' = Append(ran, phase)
    /\ IF file.loads
       THEN /\ pc' = next
            /\ UNCHANGED <<log, status>>
       ELSE Fail(phase, Error("load", None))

\* with open(output_file, 'w') as f: f.write(single_line_output)
\* print(f"The datapath: {output_file}")
\* open() may fail and leave the file alone; it truncates the file when it
\* succeeds, and the write may then fail
WriteFile(rows) ==
    \E os \in {"ok", "open fails", "write fails"} :
        /\ ran' = ran \o <<"output">> \o (IF os = "open fails" THEN <<>> ELSE <<"open">>)
        /\ IF os = "ok"
           THEN /\ out_file' = FileWith(rows)
                /\ stdout' = Append(stdout, <<"The datapath:", args.output>>)
                /\ pc' = "done"
                /\ UNCHANGED <<log, status>>
           ELSE /\ out_file' = IF os = "open fails" THEN out_file ELSE FileWith(<<>>)
                /\ stdout' = stdout
                /\ Fail("output", Error("OSError", None))

(***************************************************************************)
(* The input documents a run is started on                                 *)
(***************************************************************************)
\* bounds: the number of nodes of a mixture tree whose shape, names, data
\* references and keys are enumerated; the number of leaves of a level whose
\* proportions are enumerated
MaxNodes == 4
MaxWidth == 3

NodeNames == <<"n1", "n2", "n3", "n4", "n5", "n6", "n7", "n8">>
DataIds == <<"a", "b", "c", "d", "e", "f", "g", "h">>
DataPaths == <<"/data/a.bin", "/data/b.bin", "/data/c.bin", "/data/d.bin",
               "/data/e.bin", "/data/f.bin", "/data/g.bin", "/data/h.bin">>

\* a path table with one distinct path per data ID
CanonPaths ==
    PyDict([i \in 1..Len(DataIds) |-> <<DataIds[i], PyStr(DataPaths[i])>>])

PathTables ==
    { CanonPaths,
      PyDict(<<>>),
      PyDict(<< <<"a", PyStr("/data/a.bin")>>, <<"b", PyStr("/data/a.bin")>> >>),
      PyDict(<< <<"a", PyStr("/data/a.bin")>>, <<"b", PyInt(7)>> >>),
      PyDict(<< <<"a", PyList>>, <<"b", PyStr("/data/a.bin")>>,
                <<"c", PyStr("/data/a.bin")>> >>) }

\* d = h.l as a float with 12 fractional digits
F(h, l) == PyFloat(Dec(h, l))

\* 1/w, rounded down to 12 digits
Uniform(w) == F(Limb \div w, ((Limb % w) * Limb) \div w)

\* the proportions tried on the leaves of a level
PropSet ==
    { F(1000000, 0),              \* 1.0
      F(500000, 0),               \* 0.5
      F(333333, 300000),          \* 0.3333333
      F(666666, 700000),          \* 0.6666667
      F(499999, 999980),          \* 0.49999999998
      F(500000, 40),              \* 0.50000000004
      F(500000, 80),              \* 0.50000000008
      F(999999, 0),               \* 0.999999
      F(1500000, 0),              \* 1.5
      F(-500000, 20),             \* -0.49999999998
      F(0, 0) }                   \* 0.0

NestedPropSet ==
    { F(500000, 0), F(333333, 300000), F(666666, 700000), F(499999, 999980) }

\* values of "proportion" that are no float in (0, 1]
OddProps ==
    { PyInt(1), PyInt(0), PyInt(2), PyBool(TRUE), PyStr("0.5"),
      F(1000000, 1), F(0, 1), F(-1, 999999) }

\* the shapes of forests with n nodes: a tree is the forest of its children,
\* a leaf the empty one
RECURSIVE Forests(_)
Trees(k) == IF k = 1 THEN {<<>>} ELSE Forests(k - 1)
Forests(n) ==
    IF n = 0 THEN {<<>>}
    ELSE UNION { { <<t>> \o rest : t \in Trees(k), rest \in Forests(n - k) } :
                 k \in 1..n }

RECURSIVE Size(_)
Size(forest) ==
    IF forest = <<>> THEN 0 ELSE 1 + Size(Head(forest)) + Size(Tail(forest))

\* the labels of a tree's nodes, by preorder index
Plain == [name |-> [i \in 1..8 |-> NodeNames[i]],
          data |-> [i \in 1..8 |-> PyStr(DataIds[i])],
          prop |-> [i \in 1..8 |-> None],
          tag |-> [i \in 1..8 |-> "plain"]]

RECURSIVE BuildItems(_, _, _)
BuildNode(tree, idx, lab, width) ==
    LET prop == IF lab.prop[idx] = None /\ lab.tag[idx] # "null proportion"
                THEN Uniform(width) ELSE lab.prop[idx]
        tag == lab.tag[idx]
        p == IF tag = "no proportion" THEN <<>> ELSE << <<PROPORTION, prop>> >>
        d == << <<DATA, lab.data[idx]>> >>
        m == << <<MIXTURE, PyDict(BuildItems(tree, idx + 1, lab))>> >>
    IN  IF tag = "scalar" THEN PyStr("scalar")
        ELSE IF tag = "list" THEN PyList
        ELSE IF tag = "neither" THEN PyDict(p)
        ELSE IF tag = "mixture is a string" THEN PyDict(p \o << <<MIXTURE, PyStr("m")>> >>)
        ELSE IF tag = "both" THEN PyDict(p \o d \o m)
        ELSE IF tree = <<>> THEN PyDict(p \o d)
        ELSE PyDict(p \o m)

BuildItems(forest, start, lab) ==
    LET RECURSIVE Go(_, _)
        Go(i, idx) ==
            IF i > Len(forest) THEN <<>>
            ELSE << <<lab.name[idx], BuildNode(forest[i], idx, lab, Len(forest))>> >>
                 \o Go(i + 1, idx + 1 + Size(forest[i]))
    IN  Go(1, start)

Build(forest, lab) == PyDict(BuildItems(forest, 1, lab))

\* a JSON object has each key once
RECURSIVE WellKeyed(_)
WellKeyed(v) ==
    IF ~IsDict(v) THEN TRUE
    ELSE /\ Cardinality(Keys(v)) = Len(v.items)
         /\ \A i \in 1..Len(v.items) : WellKeyed(v.items[i][2])

Shapes == UNION { Forests(n) : n \in 1..MaxNodes }

\* assignments of n nodes to classes, up to renaming the classes
Partitions(n) ==
    { f \in [1..n -> 1..n] :
        /\ f[1] = 1
        /\ \A i \in 2..n : \E j \in 1..(i - 1) : f[i] <= f[j] + 1 }

Extend(f, n, default) == [i \in 1..8 |-> IF i <= n THEN f[i] ELSE default]

\* every shape, names repeated in every way
NameTreesOf(n) ==
    { Build(sh, [Plain EXCEPT !.name =
                    [i \in 1..8 |-> NodeNames[Extend(f, n, 8)[i]]]]) :
      sh \in Forests(n), f \in Partitions(n) }
NameTrees ==
    { t \in UNION { NameTreesOf(n) : n \in 1..MaxNodes } : WellKeyed(t) }

\* every shape, data IDs repeated in every way, or one of them unknown or no
\* string
DataTreesOf(n) ==
    { Build(sh, [Plain EXCEPT !.data =
                    [i \in 1..8 |-> PyStr(DataIds[Extend(f, n, 8)[i]])]]) :
      sh \in Forests(n), f \in Partitions(n) }
    \cup
    { Build(sh, [Plain EXCEPT !.data[k] = odd]) :
      sh \in Forests(n), k \in 1..n, odd \in {PyStr("zz"), PyInt(3), PyList, None} }
DataTrees == UNION { DataTreesOf(n) : n \in 1..MaxNodes }

\* every shape, one node with its keys or its proportion out of order
KeyTags ==
    {"both", "neither", "no proportion", "null proportion", "scalar", "list",
     "mixture is a string"}
KeyTrees ==
    { Build(sh, [Plain EXCEPT !.tag[k] = tag]) :
      sh \in Shapes, k \in 1..MaxNodes, tag \in KeyTags }
    \cup
    { Build(sh, [Plain EXCEPT !.prop[k] = odd]) :
      sh \in Shapes, k \in 1..MaxNodes, odd \in OddProps }

\* one level of w leaves, every vector of proportions
FlatTrees ==
    UNION { { Build([i \in 1..w |-> <<>>], [Plain EXCEPT !.prop =
                       [i \in 1..8 |-> IF i <= w THEN v[i] ELSE None]]) :
              v \in [1..w -> PropSet] } : w \in 1..MaxWidth }

\* a group of two leaves beside a leaf, every vector of proportions
NestedTrees ==
    { Build(<< << <<>>, <<>> >>, <<>> >>, [Plain EXCEPT !.prop =
                [i \in 1..8 |-> IF i <= 4 THEN v[i] ELSE None]]) :
      v \in [1..4 -> NestedPropSet] }

\* three levels, two nodes on each: a group beside a leaf, twice, then two
\* leaves; every choice of a balanced pair of proportions for each level
LevelPairs ==
    { <<F(500000, 0), F(500000, 0)>>,
      <<F(333333, 300000), F(666666, 700000)>>,
      <<F(666666, 700000), F(333333, 300000)>>,
      <<F(499999, 999980), F(499999, 999980)>> }
DeepTrees ==
    { Build(<< << << <<>>, <<>> >>, <<>> >>, <<>> >>, [Plain EXCEPT !.prop =
                [i \in 1..8 |-> CASE i = 1 -> a[1] [] i = 6 -> a[2]
                                   [] i = 2 -> b[1] [] i = 5 -> b[2]
                                   [] i = 3 -> c[1] [] i = 4 -> c[2]
                                   [] OTHER -> None]]) :
      a \in LevelPairs, b \in LevelPairs, c \in LevelPairs }

\* the empty mixture, and a group whose mixture is empty
EmptyTrees ==
    { PyDict(<<>>),
      PyDict(<< <<"n1", PyDict(<< <<PROPORTION, F(1000000, 0)>>,
                                  <<MIXTURE, PyDict(<<>>)>> >>)>> >>) }

Mixtures ==
    NameTrees \cup DataTrees \cup KeyTrees \cup FlatTrees \cup NestedTrees
        \cup DeepTrees \cup EmptyTrees

Scripts == {"datamix.py", "datamix-to-file.py"}

\* --output: datamix.py has no default, datamix-to-file.py 'datapath.txt'
Outputs(s) ==
    IF s = "datamix.py" THEN {None, PyStr("out.txt")} ELSE {PyStr("datapath.txt")}

SmallMixtures ==
    { Build(<< <<>>, <<>> >>, Plain),
      Build(<< <<>>, <<>> >>, [Plain EXCEPT !.prop[1] = F(333333, 300000),
                                            !.prop[2] = F(666666, 700000)]),
      Build(<< <<>> >>, [Plain EXCEPT !.prop[1] = F(999999, 0)]) }

Init ==
    /\ script \in Scripts
    /\ \/ /\ args \in [mixture : {GoodFile(m) : m \in Mixtures},
                        paths : {GoodFile(CanonPaths)},
                        output : {PyStr("datapath.txt")}]
          /\ out_file = Absent
       \/ /\ args \in [mixture : {GoodFile(m) : m \in NestedTrees \cup DeepTrees \cup NameTrees},
                        paths : {GoodFile(CanonPaths)},
                        output : Outputs(script) \ {PyStr("datapath.txt")}]
          /\ out_file = Absent
       \/ /\ args \in [mixture : {BadFile} \cup {GoodFile(m) : m \in SmallMixtures},
                        paths : {BadFile} \cup {GoodFile(t) : t \in PathTables},
                        output : Outputs(script)]
          /\ out_file \in {Absent, FileWith(<<"stale">>)}
    /\ pc = "load_mixture"
    /\ mixture = None
    /\ paths = None
    /\ validation = None
    /\ quantized = None
    /\ status = 0
    /\ log = <<>>
    /\ stdout = <<>>
    /\ ran = <<>>


(* datamix.py, main *)
LoadMixture ==
    /\ script = "datamix.py"
    /\ Load("load_mixture", args.mixture, "load_paths")
    /\ mixture' = IF args.mixture.loads THEN args.mixture.value ELSE mixture
    /\ UNCHANGED <<script, args, paths, validation, quantized, stdout, out_file>>

LoadPaths ==
    /\ script = "datamix.py"
    /\ Load("load_paths", args.paths, "validate_paths")
    /\ paths' = IF args.paths.loads THEN args.paths.value ELSE paths
    /\ UNCHANGED <<script, args, mixture, validation, quantized, stdout, out_file>>

ValidatePaths ==
    /\ script = "datamix.py"
    /\ pc = "validate_paths"
    /\ ran' = Append(ran, "validate_paths")
    /\ LET e == validate_paths(paths)
       IN  IF e.kind = "ok"
           THEN pc' = "validate_mixture" /\ UNCHANGED <<log, status>>
           ELSE Fail("validate_paths", e)
    /\ UNCHANGED <<script, args, mixture, paths, validation, quantized, stdout, out_file>>

ValidateMixture ==
    /\ script = "datamix.py"
    /\ pc = "validate_mixture"
    /\ ran' = Append(ran, "validate_mixture")
    /\ LET r == validate_mixture(mixture, paths, None, None, None)
       IN  /\ validation' = r
           /\ stdout' = stdout \o r.printed
           /\ IF Raised(r)
              THEN Fail("validate_mixture", r.err)
              ELSE pc' = "output" /\ UNCHANGED <<log, status>>
    /\ UNCHANGED <<script, args, mixture, paths, quantized, out_file>>

\* if args.output: save_megatron_data_path(mixture, paths, args.output)
SaveOutput ==
    /\ script = "datamix.py"
    /\ pc = "output"
    /\ args.output # None
    /\ LET r == save_megatron_data_path(mixture, paths)
       IN  /\ quantized' = r
           /\ IF Raised(r)
              THEN /\ ran' = Append(ran, "output")
                   /\ Fail("output", r.err)
                   /\ UNCHANGED <<stdout, out_file>>
              ELSE WriteFile(r.rows)
    /\ UNCHANGED <<script, args, mixture, paths, validation>>

\* else: output_megatron_data_path(mixture, paths)
PrintOutput ==
    /\ script = "datamix.py"
    /\ pc = "output"
    /\ args.output = None
    /\ ran' = Append(ran, "output")
    /\ LET r == output_megatron_data_path(mixture, paths)
       IN  /\ quantized' = r
           /\ IF Raised(r)
              THEN Fail("output", r.err) /\ stdout' = stdout
              ELSE /\ stdout' = stdout \o r.rows
                   /\ pc' = "done"
                   /\ UNCHANGED <<log, status>>
    /\ UNCHANGED <<script, args, mixture, paths, validation, out_file>>

(* datamix-to-file.py, main: the same phases inside one try block *)
LoadMixture_tf ==
    /\ script = "datamix-to-file.py"
    /\ Load("load_mixture", args.mixture, "load_paths")
    /\ mixture' = IF args.mixture.loads THEN args.mixture.value ELSE mixture
    /\ UNCHANGED <<script, args, paths, validation, quantized, stdout, out_file>>

LoadPaths_tf ==
    /\ script = "datamix-to-file.py"
    /\ Load("load_paths", args.paths, "validate_paths")
    /\ paths' = IF args.paths.loads THEN args.paths.value ELSE paths
    /\ UNCHANGED <<script, args, mixture, validation, quantized, stdout, out_file>>

ValidatePaths_tf ==
    /\ script = "datamix-to-file.py"
    /\ pc = "validate_paths"
    /\ ran' = Append(ran, "validate_paths")
    /\ LET e == validate_paths(paths)
       IN  IF e.kind = "ok"
           THEN pc' = "validate_mixture" /\ UNCHANGED <<log, status>>
           ELSE Fail("validate_paths", e)
    /\ UNCHANGED <<script, args, mixture, paths, validation, quantized, stdout, out_file>>

ValidateMixture_tf ==
    /\ script = "datamix-to-file.py"
    /\ pc = "validate_mixture"
    /\ ran' = Append(ran, "validate_mixture")
    /\ LET r == validate_mixture_tf(mixture, paths, None, None, None)
       IN  /\ validation' = r
           /\ IF Raised(r)
              THEN Fail("validate_mixture", r.err)
              ELSE pc' = "output" /\ UNCHANGED <<log, status>>
    /\ UNCHANGED <<script, args, mixture, paths, quantized, stdout, out_file>>

SaveOutput_tf ==
    /\ script = "datamix-to-file.py"
    /\ pc = "output"
    /\ LET r == save_megatron_data_path_tf(mixture, paths)
       IN  /\ quantized' = r
           /\ IF Raised(r)
              THEN /\ ran' = Append(ran, "output")
                   /\ Fail("output", r.err)
                   /\ UNCHANGED <<stdout, out_file>>
              ELSE WriteFile(r.rows)
    /\ UNCHANGED <<script, args, mixture, paths, validation>>

Next ==
    \/ LoadMixture
    \/ LoadPaths
    \/ ValidatePaths
    \/ ValidateMixture
    \/ SaveOutput
    \/ PrintOutput
    \/ LoadMixture_tf
    \/ LoadPaths_tf
    \/ ValidatePaths_tf
    \/ ValidateMixture_tf
    \/ SaveOutput_tf

Spec == Init /\ [][Next]_vars

(***************************************************************************)
(* Properties                                                              *)
(***************************************************************************)
Range(seq) == {seq[i] : i \in 1..Len(seq)}

\* the validate_mixture call has ended / has returned normally
Validated == validation # None
Accepted == validation # None /\ ~Raised(validation)
\* the quantizer has ended / has produced rows
Quantized == quantized # None
Emitted == quantized # None /\ ~Raised(quantized)

IsGroup(v) == IsDict(v) /\ HasKey(v, MIXTURE) /\ IsDict(Get(v, MIXTURE))

\* the levels of a mixture tree: the root and every nested mixture
RECURSIVE Levels(_)
Levels(m) ==
    {m} \cup UNION { Levels(Get(m.items[i][2], MIXTURE)) :
                     i \in {j \in 1..Len(m.items) : IsGroup(m.items[j][2])} }

\* the (name, node) pairs of a tree, at every level
Nodes(m) == UNION { Range(l.items) : l \in Levels(m) }

\* the names of a tree's nodes in depth-first, left-to-right order
RECURSIVE WalkNames(_)
WalkNames(m) ==
    LET RECURSIVE Go(_)
        Go(i) ==
            IF i > Len(m.items) THEN <<>>
            ELSE <<m.items[i][1]>>
                 \o (IF IsGroup(m.items[i][2])
                     THEN WalkNames(Get(m.items[i][2], MIXTURE)) ELSE <<>>)
                 \o Go(i + 1)
    IN  Go(1)

HasRepeat(seq) == \E i, j \in 1..Len(seq) : i < j /\ seq[i] = seq[j]

\* the tree with its nodes renamed apart, in walk order
FreshNames == <<"r1", "r2", "r3", "r4", "r5", "r6", "r7", "r8", "r9", "r10">>
RECURSIVE RenameApart(_, _)
RenameApart(m, start) ==
    LET RECURSIVE Go(_, _)
        Go(i, idx) ==
            IF i > Len(m.items) THEN <<>>
            ELSE LET v == m.items[i][2]
                     sub == IF IsGroup(v) THEN RenameApart(Get(v, MIXTURE), idx + 1)
                            ELSE PyDict(<<>>)
                     n == IF IsGroup(v) THEN Len(WalkNames(Get(v, MIXTURE))) ELSE 0
                     w == IF IsGroup(v)
                          THEN PyDict([j \in 1..Len(v.items) |->
                                   IF v.items[j][1] = MIXTURE
                                   THEN <<MIXTURE, sub>> ELSE v.items[j]])
                          ELSE v
                 IN  << <<FreshNames[idx], w>> >> \o Go(i + 1, idx + 1 + n)
    IN  PyDict(Go(1, start))

ValidateBy(s, m, p) ==
    IF s = "datamix.py" THEN validate_mixture(m, p, None, None, None)
    ELSE validate_mixture_tf(m, p, None, None, None)

\* the decimal a formatted proportion reads as, in units of 10^-precision
ParseFixed(f) == (IF f.sign = "-" THEN -1 ELSE 1) * (f.int * 10^precision + f.frac)

RECURSIVE RowsTotal(_)
RowsTotal(rows) ==
    IF rows = <<>> THEN 0 ELSE ParseFixed(Head(rows).proportion) + RowsTotal(Tail(rows))

\* C1: in datamix.py, whenever the quantizer has run on a validated mixture
\* it has emitted rows, and the integer values of the rows (the floor values
\* after the increment step, and the decimals as printed) sum to exactly
\* 10^precision.
C1_SumIsExact ==
    (script = "datamix.py" /\ Quantized) =>
        /\ ~Raised(quantized)
        /\ RowsTotal(quantized.rows) = 10^precision
        /\ SumFloor(quantized.items, 1) = 10^precision
        /\ (pc = "done" /\ status = 0 /\ args.output # None
               => out_file.exists /\ RowsTotal(out_file.content) = 10^precision)

\* a nested mixture whose top level sums to 1 only within the tolerance, with
\* a deficit to distribute
C1_Witness ==
    /\ script = "datamix.py"
    /\ Emitted
    /\ quantized.diff >= 1
    /\ Len(quantized.rows) >= 3
    /\ \E i \in 1..Len(mixture.items) : IsGroup(mixture.items[i][2])
    /\ PySum(validation.proportions) # DecOne

\* C2: a mixture validate_mixture accepts has, at every nesting level, only
\* nodes with exactly one of the keys data and mixture.
C2_ExactlyOneOfDataMixture ==
    Accepted =>
        \A kv \in Nodes(mixture) :
            IsDict(kv[2]) /\ (HasKey(kv[2], DATA) # HasKey(kv[2], MIXTURE))

\* a proportion that is present, numeric and in (0, 1]
GoodProportion(v) ==
    /\ HasKey(v, PROPORTION)
    /\ Get(v, PROPORTION).type \in {"float", "int"}
    /\ DecLt(DecZero, Get(v, PROPORTION).val)
    /\ DecLe(Get(v, PROPORTION).val, DecOne)

ProportionErrors ==
    {"missing proportion", "expected float proportion",
     "expected numeric proportion", "expected 0 < proportion <= 1"}

\* C3: validate_mixture accepts a proportion if and only if it is present,
\* numeric and in (0, 1]: an accepted mixture has only such proportions, and
\* a node is rejected for its proportion only when it is not such a one.
C3_ProportionAcceptedIffInRange ==
    /\ Accepted =>
          \A kv \in Nodes(mixture) : IsDict(kv[2]) /\ GoodProportion(kv[2])
    /\ (Validated /\ validation.err.kind \in ProportionErrors) =>
          \E kv \in Nodes(mixture) :
              kv[1] = validation.err.at.s /\ ~GoodProportion(kv[2])

\* the data references of the leaves, in walk order
LeafData(m) ==
    { <<kv[1], Get(kv[2], DATA)>> :
      kv \in {n \in Nodes(m) : IsDict(n[2]) /\ ~HasKey(n[2], MIXTURE) /\ HasKey(n[2], DATA)} }

\* C4: an accepted mixture references every data ID at most once and only IDs
\* of the path table, and the rows emitted for it have pairwise distinct paths.
C4_ReferencesDistinct ==
    /\ Accepted =>
          /\ \A a, b \in LeafData(mixture) : a[2] = b[2] => a[1] = b[1]
          /\ \A a \in LeafData(mixture) : IsStr(a[2]) /\ HasKey(paths, a[2].s)
    /\ Emitted =>
          \A i, j \in 1..Len(quantized.rows) :
              quantized.rows[i].path = quantized.rows[j].path => i = j

\* C5: one name set is threaded through the whole walk.  An accepted mixture
\* has no name twice anywhere in the tree, and the set the call ends with holds
\* every name of the tree; a mixture that is valid but for a repeated name
\* (it is accepted with its nodes renamed apart) fails with the duplicate-name
\* error; and that error is raised only for a name the tree repeats (the set
\* starts empty on each top-level call).
C5_NamesThreaded ==
    Validated =>
        /\ ~Raised(validation) =>
              /\ ~HasRepeat(WalkNames(mixture))
              /\ validation.names = Range(WalkNames(mixture))
        /\ (HasRepeat(WalkNames(mixture))
            /\ ~Raised(ValidateBy(script, RenameApart(mixture, 1), paths)))
              => validation.err.kind = "duplicate name"
        /\ validation.err.kind = "duplicate name" =>
              /\ HasRepeat(WalkNames(mixture))
              /\ validation.err.at.s \in validation.names

\* the repeated name is that of a top-level leaf, met again as the first
\* child of the group that follows it: another branch, another depth
C5_Witness ==
    /\ Validated
    /\ validation.err.kind = "duplicate name"
    /\ Len(mixture.items) >= 2
    /\ mixture.items[1][1] = validation.err.at.s
    /\ ~IsGroup(mixture.items[1][2])
    /\ IsGroup(mixture.items[2][2])
    /\ validation.names = {mixture.items[1][1], mixture.items[2][1]}

\* the proportions of a level, and |sum - 1| <= tol * 10^-12
PropsOf(l) == [i \in 1..Len(l.items) |-> Get(l.items[i][2], PROPORTION)]
Within(sum, tol) == DecLe(DecAbs(DecAdd(sum, DecNeg(DecOne))), Dec(0, tol))

\* the level a balance error names: the root, or the mixture of the node
\* whose key it gives
NamedLevel(m, label, props) ==
    IF label = PyStr("top level mixture") /\ PropsOf(m) = props THEN TRUE
    ELSE \E kv \in Nodes(m) :
            kv[1] = label.s /\ IsGroup(kv[2]) /\ PropsOf(Get(kv[2], MIXTURE)) = props

BalanceWithin(tol) ==
    /\ Accepted => \A l \in Levels(mixture) : Within(PySum(PropsOf(l)), tol)
    /\ (Validated /\ validation.err.kind = "values do not add to 1") =>
          /\ ~Within(PySum(validation.proportions), tol)
          /\ NamedLevel(mixture, validation.err.at, validation.proportions)

\* C6 (as claimed): a level is accepted if and only if its proportions sum to
\* 1.0 within 1e-10, and a failing level is named by its parent key or as the
\* top level mixture.
C6_BalanceWithin1e10 == BalanceWithin(100)

\* C6 (amended): a level is accepted if and only if its proportions sum to
\* 1.0 within 5e-11, which is what round(sum, 10) = 1 tests; a failing level
\* is named by its parent key or as the top level mixture.
C6_BalanceWithin5e11 == BalanceWithin(50)

\* a level accepted with a sum that is not 1: 1.00000000004
C6_Witness ==
    /\ Accepted
    /\ PySum(validation.proportions) = Dec(1000000, 40)

\* C7: a deficit that is negative or greater than the number of entries ends
\* the quantizer in an error, with no rows emitted.
C7_DeficitOutOfRangeFails ==
    (Quantized /\ (quantized.diff < 0 \/ quantized.diff > Len(quantized.flattened))) =>
        /\ Raised(quantized)
        /\ quantized.rows = <<>>
        /\ stdout = <<>>
        /\ out_file \in {Absent, FileWith(<<"stale">>)}

Phases == <<"load_mixture", "load_paths", "validate_paths", "validate_mixture", "output">>

\* C8: the output file is opened only after both documents loaded,
\* validate_paths and validate_mixture succeeded and the quantizer ended
\* without error; a phase that fails is the last to run, main returns 1, and
\* unless the file was opened it is as it was.
C8_FailFast ==
    /\ "open" \in Range(ran) =>
          /\ SubSeq(ran, 1, 5) = Phases
          /\ args.mixture.loads /\ args.paths.loads
          /\ Accepted /\ Emitted
          /\ \A i \in 1..Len(log) : log[i].phase = "output" /\ log[i].err.kind = "OSError"
    /\ "open" \notin Range(ran) => out_file \in {Absent, FileWith(<<"stale">>)}
    /\ (status = 1) = (log # <<>>)
    /\ status = 1 =>
          /\ pc = "done"
          /\ Len(log) = 1
          /\ \E n \in 1..Len(Phases) :
                /\ log[1].phase = Phases[n]
                /\ SubSeq(ran, 1, n) = SubSeq(Phases, 1, n)
                /\ Len(ran) = n \/ (ran = Phases \o <<"open">> /\ out_file = FileWith(<<>>))
    /\ (ran # <<>> /\ ~args.mixture.loads) => (status = 1 /\ ran = <<"load_mixture">>)
    /\ (Len(ran) >= 2 /\ ~args.paths.loads) => (status = 1 /\ Len(ran) = 2)
    /\ (Validated /\ Raised(validation)) => (status = 1 /\ Len(ran) = 4)
    /\ (Quantized /\ Raised(quantized)) => (status = 1 /\ Len(ran) = 5)
    /\ (pc = "done" /\ status = 0) =>
          /\ Accepted /\ Emitted
          /\ args.output # None => out_file = FileWith(quantized.rows)

\* validate_mixture fails, main returns 1 and a stale output file is as it was
C8_Witness ==
    /\ Validated /\ Raised(validation)
    /\ status = 1
    /\ pc = "done"
    /\ out_file = FileWith(<<"stale">>)

\* the floor and the remainder of a proportion in millionths, read off its
\* two limbs (towards zero for a negative one)
MicroFloor(p) == IF p.hi >= 0 \/ p.lo = 0 THEN p.hi ELSE p.hi + 1
MicroRemainder(p) == IF p.hi >= 0 \/ p.lo = 0 THEN p.lo ELSE p.lo - Limb

\* where key k stands in the flattened map
Position(flattened, k) == CHOOSE i \in 1..Len(flattened) : flattened[i][1] = k
Flat(k) == quantized.flattened[Position(quantized.flattened, k)][2]

\* C9: the rows are the flattened entries in remainder-descending order,
\* entries of equal remainder in flattening order; the first d of them carry
\* their floor value plus 1 and the others their floor value, so every
\* incremented entry has a remainder >= that of every other; with a deficit
\* d >= 0 exactly d entries are incremented.
C9_LargestRemainder ==
    Emitted =>
        LET items == quantized.items
            n == Len(items)
            d == quantized.diff
        IN  /\ n = Len(quantized.flattened)
            /\ {items[i].key : i \in 1..n} = {quantized.flattened[i][1] : i \in 1..n}
            /\ \A i \in 1..n :
                  /\ items[i].remainder = MicroRemainder(Flat(items[i].key).proportion)
                  /\ items[i].floor = MicroFloor(Flat(items[i].key).proportion)
                                        + (IF i <= d THEN 1 ELSE 0)
                  /\ quantized.rows[i].path = Get(paths, Flat(items[i].key).data.s)
                  /\ ParseFixed(quantized.rows[i].proportion) = items[i].floor
            /\ \A i, j \in 1..n : i < j =>
                  \/ items[i].remainder > items[j].remainder
                  \/ /\ items[i].remainder = items[j].remainder
                     /\ Position(quantized.flattened, items[i].key)
                          < Position(quantized.flattened, items[j].key)
            /\ d >= 0 =>
                  Cardinality({i \in 1..n :
                      items[i].floor # MicroFloor(Flat(items[i].key).proportion)}) = d

\* the last incremented entry and the first one not incremented have the same
\* remainder, and the earlier of the two in flattening order got the unit
C9_Witness ==
    /\ Emitted
    /\ quantized.diff >= 1
    /\ quantized.diff < Len(quantized.items)
    /\ quantized.items[quantized.diff].remainder
         = quantized.items[quantized.diff + 1].remainder
    /\ \E i, j \in 1..Len(quantized.items) :
          i < j /\ quantized.items[i].remainder > quantized.items[j].remainder

\* the leaves of a tree in walk order, each with the proportions on the path
\* from the root to it
RECURSIVE LeafPaths(_, _)
LeafPaths(m, above) ==
    LET RECURSIVE Go(_)
        Go(i) ==
            IF i > Len(m.items) THEN <<>>
            ELSE LET k == m.items[i][1]
                     v == m.items[i][2]
                     path == Append(above, Get(v, PROPORTION).val)
                 IN  (IF HasKey(v, MIXTURE) THEN LeafPaths(Get(v, MIXTURE), path)
                      ELSE << [name |-> k, path |-> path, data |-> Get(v, DATA)] >>)
                     \o Go(i + 1)
    IN  Go(1)

\* 1.0 * p1 * p2 * ... from the root down
RECURSIVE Product(_)
Product(ps) ==
    IF ps = <<>> THEN DecOne ELSE DecMul(Product(SubSeq(ps, 1, Len(ps) - 1)), ps[Len(ps)])

GroupNames(m) == { kv[1] : kv \in {n \in Nodes(m) : HasKey(n[2], MIXTURE)} }

\* C10: for an accepted mixture the flattened map has exactly one entry per
\* leaf, in walk order, keyed by the leaf's name, with the product of the
\* proportions on the root-to-leaf path and the leaf's data ID; no group name
\* is a key, and the mixture is as it was loaded.
C10_FlattenIsLeafProducts ==
    (Accepted /\ Quantized) =>
        LET leaves == LeafPaths(mixture, <<>>)
            flattened == quantized.flattened
        IN  /\ Len(flattened) = Len(leaves)
            /\ \A i \in 1..Len(leaves) :
                  /\ flattened[i][1] = leaves[i].name
                  /\ flattened[i][2].proportion = Product(leaves[i].path)
                  /\ flattened[i][2].data = leaves[i].data
            /\ {flattened[i][1] : i \in 1..Len(flattened)} \cap GroupNames(mixture) = {}
            /\ mixture = args.mixture.value

\* two levels of nesting: a leaf whose weight is the product of three
\* proportions, none of them 1
C10_Witness ==
    /\ Accepted
    /\ Quantized
    /\ \E l \in Range(LeafPaths(mixture, <<>>)) :
          /\ Len(l.path) = 3
          /\ \A i \in 1..3 : l.path[i] # DecOne
          /\ \E i \in 1..Len(quantized.flattened) :
                /\ quantized.flattened[i][1] = l.name
                /\ quantized.flattened[i][2].proportion # l.path[3]
====
